---- MODULE Spec2Model ----
(***************************************************************************)
(* Model of the LaTeX sanitizer / LuaLaTeX compiler adapter of             *)
(* gemini-latex-enhancer (backend/app/infrastructure/latex).               *)
(*                                                                         *)
(* Text is a sequence of symbols.  A symbol is one character ("a", "&",    *)
(* the backslash, the newline, ...) or one lexeme that the code never      *)
(* looks into ("\begin{document}", ".tex", ...).  Offsets are 0-based as   *)
(* in the Python source; Slice(s, a, b) is Python's s[a:b].                *)
(***************************************************************************)
EXTENDS Integers, Sequences, FiniteSets, TLC

(* ------------------------------------------------------------------------ *)
(* Symbols                                                                  *)
(* ------------------------------------------------------------------------ *)
BS == "\\"
NL == "\n"
SP == " "
BeginDocument == "\\begin{document}"
EndDocument == "\\end{document}"

Slice(s, a, b) == SubSeq(s, a + 1, b)

RECURSIVE Flatten(_)
Flatten(ss) == IF ss = <<>> THEN <<>> ELSE Head(ss) \o Flatten(Tail(ss))

(* ------------------------------------------------------------------------ *)
(* latex_sanitizer.py: character escaping                                   *)
(* ------------------------------------------------------------------------ *)

(* re.sub(r"(?<![L])c", r"\\c", line): every c whose predecessor in the     *)
(* line is not in L gets a backslash in front of it.                        *)
ReSubEscape(line, c, L) ==
    Flatten([i \in 1..Len(line) |->
        IF line[i] = c /\ (i = 1 \/ line[i - 1] \notin L)
        THEN <<BS, c>> ELSE <<line[i]>>])

RECURSIVE lstrip(_)
lstrip(line) ==
    IF line # <<>> /\ Head(line) \in {SP, NL} THEN lstrip(Tail(line)) ELSE line

EscapeLineBackslashOnly(line) ==
    IF lstrip(line) # <<>> /\ Head(lstrip(line)) = "%"
    THEN line
    ELSE LET e1 == ReSubEscape(line, "&", {BS})
             e2 == ReSubEscape(e1, "$", {BS})
             e3 == ReSubEscape(e2, "#", {BS})
             e4 == ReSubEscape(e3, "_", {BS})
         IN  ReSubEscape(e4, "%", {BS})
escape_line(line) ==
    IF lstrip(line) # <<>> /\ Head(lstrip(line)) = "%"
    THEN line
    ELSE LET e1 == ReSubEscape(line, "&", {BS})
             e2 == ReSubEscape(e1, "$", {BS})
             e3 == ReSubEscape(e2, "#", {BS})
             e4 == ReSubEscape(e3, "_", {BS})
         IN  ReSubEscape(e4, "%", {BS, "%"})

(* re.split("(\r?\n)", text): the lines and the separators between them.    *)
RECURSIVE SplitLines(_, _)
SplitLines(text, cur) ==
    IF text = <<>> THEN <<cur>>
    ELSE IF Head(text) = NL THEN <<cur, <<NL>>>> \o SplitLines(Tail(text), <<>>)
    ELSE SplitLines(Tail(text), Append(cur, Head(text)))

escape_specials_in_text(text) ==
    IF text = <<>> THEN text
    ELSE LET lines == SplitLines(text, <<>>)
         IN  Flatten([k \in 1..Len(lines) |->
                 IF lines[k] = <<NL>> THEN lines[k] ELSE escape_line(lines[k])])

(* ------------------------------------------------------------------------ *)
(* pylatexenc LatexWalker(content).get_latex_nodes(), as the sanitizer uses *)
(* it (default latex context, tolerant parsing).  A node is a record        *)
(* [kind, pos, len, name, nodelist, argnlist]; pos and len are the node's   *)
(* range in the content.                                                    *)
(* ------------------------------------------------------------------------ *)
BeginTabular == "\\begin{tabular}"
EndTabular == "\\end{tabular}"
BeginTabularx == "\\begin{tabularx}"
BeginVerbatim == "\\begin{verbatim}"
BeginLstlisting == "\\begin{lstlisting}"
BeginEquation == "\\begin{equation}"
BeginBmatrix == "\\begin{bmatrix}"
DisplayOpen == "\\["
DisplayClose == "\\]"
Href == "\\href"
Url == "\\url"
Verb == "\\verb"
Path == "\\path"

Letters == {"a", "b"}
Whitespace == {SP, NL}
(* Symbols that the tokenizer gathers into LatexCharsNode runs.             *)
OrdinarySymbols == Letters \cup Whitespace \cup {"#", "_"}
(* \begin{name} lexemes and the \end{name} lexeme that closes each.         *)
EnvironmentOpeners ==
    {BeginDocument, BeginTabular, BeginTabularx, BeginVerbatim, BeginLstlisting,
     BeginEquation, BeginBmatrix}
EnvironmentName(open) ==
    CASE open = BeginDocument -> <<"document">>
      [] open = BeginTabularx -> <<"tabular", "x">>
      [] open = BeginVerbatim -> <<"verbatim">>
      [] open = BeginLstlisting -> <<"lstlisting">>
      [] open = BeginEquation -> <<"equation">>
      [] open = BeginBmatrix -> <<"b", "matrix">>
      [] OTHER -> <<"tabular">>
EnvironmentCloser(open) ==
    CASE open = BeginDocument -> EndDocument
      [] open = BeginTabularx -> "\\end{tabularx}"
      [] open = BeginVerbatim -> "\\end{verbatim}"
      [] open = BeginLstlisting -> "\\end{lstlisting}"
      [] open = BeginEquation -> "\\end{equation}"
      [] open = BeginBmatrix -> "\\end{bmatrix}"
      [] OTHER -> EndTabular
(* The environments whose body the walker reads verbatim, without parsing.  *)
VerbatimParsedOpeners == {BeginVerbatim}
(* The macros of the walker's latex context, as lexemes, and the number of  *)
(* mandatory arguments the context gives each (\path is not in it).         *)
MacroLexemes == {Href, Url, Verb, Path}
MacroLexemeName(m) ==
    CASE m = Href -> <<"href">>
      [] m = Url -> <<"url">>
      [] m = Verb -> <<"verb">>
      [] OTHER -> <<"path">>
MacroArgCount(m) == IF m = Href THEN 2 ELSE IF m = Url THEN 1 ELSE 0

Node(kind, pos, len, name, nodelist, argnlist) ==
    [kind |-> kind, pos |-> pos, len |-> len, name |-> name,
     nodelist |-> nodelist, argnlist |-> argnlist]

(* The first offset >= i whose symbol is not in S (Len(s) if there is none). *)
RECURSIVE RunEnd(_, _, _)
RunEnd(s, i, S) ==
    IF i < Len(s) /\ s[i + 1] \in S THEN RunEnd(s, i + 1, S) ELSE i

(* The first offset >= i whose symbol is c (Len(s) if there is none).        *)
RECURSIVE Find(_, _, _)
Find(s, i, c) ==
    IF i < Len(s) /\ s[i + 1] # c THEN Find(s, i + 1, c) ELSE i

(* A comment token: "%" up to the end of the line, plus the newline and the *)
(* whitespace after it unless that whitespace starts a paragraph break.     *)
CommentLen(s, i) ==
    LET j == Find(s, i, NL)
    IN  IF j >= Len(s) THEN Len(s) - i
        ELSE IF j + 1 < Len(s) /\ s[j + 2] = NL THEN j - i
        ELSE RunEnd(s, j + 1, Whitespace) - i

(* A macro token: backslash, then one non-letter or a run of letters with   *)
(* the whitespace that follows it.                                          *)
MacroLen(s, i) ==
    IF i + 1 >= Len(s) THEN 1
    ELSE IF s[i + 2] \in Letters
         THEN RunEnd(s, RunEnd(s, i + 1, Letters), Whitespace) - i
         ELSE 2
MacroName(s, i) ==
    IF i + 1 >= Len(s) THEN <<>>
    ELSE IF s[i + 2] \in Letters
         THEN Slice(s, i + 1, RunEnd(s, i + 1, Letters))
         ELSE <<s[i + 2]>>

RECURSIVE ParseNodes(_, _, _)
RECURSIVE ParseOne(_, _)
RECURSIVE ParseArgs(_, _, _)

(* get_latex_nodes from offset i up to the symbol `closer` (or the end):    *)
(* [nodes, next, closed], next being the offset after the closer.           *)
ParseNodes(s, i, closer) ==
    IF i >= Len(s) THEN [nodes |-> <<>>, next |-> i, closed |-> FALSE]
    ELSE IF s[i + 1] = closer THEN [nodes |-> <<>>, next |-> i + 1, closed |-> TRUE]
    ELSE LET first == ParseOne(s, i)
             rest == ParseNodes(s, first.pos + first.len, closer)
         IN  [nodes |-> <<first>> \o rest.nodes, next |-> rest.next,
              closed |-> rest.closed]

(* n mandatory arguments from offset i: after optional whitespace, a group, *)
(* or a single character; a "none" node where no argument is found.         *)
ParseArgs(s, i, n) ==
    IF n = 0 THEN <<>>
    ELSE LET j == RunEnd(s, i, Whitespace)
             arg == IF j < Len(s) /\ s[j + 1] = "{" THEN ParseOne(s, j)
                    ELSE IF j < Len(s) /\ s[j + 1] \in Letters \cup {"#", "_"}
                         THEN Node("chars", j, 1, <<>>, <<>>, <<>>)
                    ELSE IF j < Len(s) /\ s[j + 1] = "&"
                         THEN Node("specials", j, 1, <<"&">>, <<>>, <<>>)
                    ELSE Node("none", i, 0, <<>>, <<>>, <<>>)
         IN  <<arg>> \o ParseArgs(s, arg.pos + arg.len, n - 1)

ParseOne(s, i) ==
    LET c == s[i + 1] IN
    IF c = "%" THEN Node("comment", i, CommentLen(s, i), <<>>, <<>>, <<>>)
    ELSE IF c = "&" THEN Node("specials", i, 1, <<"&">>, <<>>, <<>>)
    ELSE IF c = BS THEN Node("macro", i, MacroLen(s, i), MacroName(s, i), <<>>, <<>>)
    ELSE IF c = Verb THEN
        (* \verb<delimiter>...<delimiter>, read verbatim *)
        LET close == IF i + 1 < Len(s) THEN Find(s, i + 2, s[i + 2]) ELSE Len(s)
        IN  Node("macro", i, (IF close < Len(s) THEN close + 1 ELSE Len(s)) - i,
                 MacroLexemeName(c), <<>>, <<>>)
    ELSE IF c \in MacroLexemes THEN
        LET args == ParseArgs(s, i + 1, MacroArgCount(c))
            end == IF args = <<>> THEN RunEnd(s, i + 1, Whitespace)
                   ELSE args[Len(args)].pos + args[Len(args)].len
        IN  Node("macro", i, end - i, MacroLexemeName(c), <<>>, args)
    ELSE IF c = "{" THEN
        LET body == ParseNodes(s, i + 1, "}")
        IN  Node("group", i, body.next - i, <<>>, body.nodes, <<>>)
    ELSE IF c = "$" THEN
        LET body == ParseNodes(s, i + 1, "$")
        IN  Node("math", i, body.next - i, <<>>, body.nodes, <<>>)
    ELSE IF c = DisplayOpen THEN
        LET body == ParseNodes(s, i + 1, DisplayClose)
        IN  Node("math", i, body.next - i, <<>>, body.nodes, <<>>)
    ELSE IF c \in VerbatimParsedOpeners THEN
        LET close == Find(s, i + 1, EnvironmentCloser(c))
        IN  Node("environment", i, (IF close < Len(s) THEN close + 1 ELSE Len(s)) - i,
                 EnvironmentName(c), <<>>, <<>>)
    ELSE IF c \in EnvironmentOpeners THEN
        LET body == ParseNodes(s, i + 1, EnvironmentCloser(c))
        IN  Node("environment", i, body.next - i, EnvironmentName(c), body.nodes, <<>>)
    ELSE IF c \in OrdinarySymbols THEN
        Node("chars", i, RunEnd(s, i, OrdinarySymbols) - i, <<>>, <<>>, <<>>)
    ELSE Node("other", i, 1, <<>>, <<>>, <<>>)

get_latex_nodes(content) == ParseNodes(content, 0, "").nodes

(* ------------------------------------------------------------------------ *)
(* latex_sanitizer.py: the structural walk                                  *)
(* ------------------------------------------------------------------------ *)
NoVerbatimEnvironments == {}
VERBATIM_ENVIRONMENTS == {<<"verbatim">>, <<"Verbatim">>, <<"lstlisting">>, <<"minted">>}
VERBATIM_MACROS == {<<"verb">>, <<"Verb">>, <<"url">>, <<"path">>}
TABULAR_ENV_PREFIXES == {"tabular", "array", "longtable", "tabu"}
MATH_ENVIRONMENTS ==
    {<<"math">>, <<"displaymath">>, <<"equation">>, <<"equation*">>, <<"align">>,
     <<"align*">>, <<"gather">>, <<"gather*">>, <<"multline">>, <<"multline*">>,
     <<"split">>, <<"cases">>}

TraversalContext(tab, math, verb, doc) ==
    [in_tabular |-> tab, in_math |-> math, in_verbatim |-> verb, in_document |-> doc]
MathOnly(ctx) == TraversalContext(FALSE, TRUE, FALSE, FALSE)
with_tabular(ctx) ==
    IF ctx.in_tabular THEN ctx
    ELSE TraversalContext(TRUE, ctx.in_math, ctx.in_verbatim, ctx.in_document)
with_math(ctx) ==
    IF ctx.in_math THEN ctx
    ELSE TraversalContext(ctx.in_tabular, TRUE, ctx.in_verbatim, ctx.in_document)
with_verbatim(ctx) ==
    IF ctx.in_verbatim THEN ctx
    ELSE TraversalContext(ctx.in_tabular, ctx.in_math, TRUE, ctx.in_document)
with_document(ctx) ==
    IF ctx.in_document THEN ctx
    ELSE TraversalContext(ctx.in_tabular, ctx.in_math, ctx.in_verbatim, TRUE)

TraversalState(dc, de) ==
    [documentclass_seen |-> dc, document_environment_seen |-> de]

(* env_name.lower(); the environment names of the model are lexemes.        *)
Lower(name) == IF name = <<"Verbatim">> THEN <<"verbatim">> ELSE name
IsNeverTabular(env_name) == FALSE
is_tabular_environment(env_name) ==
    env_name # <<>> /\ env_name[1] \in TABULAR_ENV_PREFIXES
(* name in the set, or name.endswith("matrix") / name.endswith("matrix*")   *)
is_math_environment(env_name) ==
    \/ env_name \in MATH_ENVIRONMENTS
    \/ env_name # <<>> /\ env_name[Len(env_name)] \in {"matrix", "matrix*"}

(* content.rfind("\n", 0, pos) + 1                                          *)
RECURSIVE LineStart(_, _)
LineStart(content, pos) ==
    IF pos = 0 \/ content[pos] = NL THEN pos ELSE LineStart(content, pos - 1)

(* line_prefix.strip() is non-empty                                         *)
AlwaysHasText(prefix) == TRUE
HasText(prefix) == \E k \in 1..Len(prefix) : prefix[k] \notin Whitespace

(* The accumulator of one walk: the replacements list (start, end, text)    *)
(* in the order of its appends, and the _TraversalState.                    *)
Acc(replacements, state) == [replacements |-> replacements, state |-> state]

(* The argument _process_node does not descend into: the URL of \href.      *)
SkipsNoArgument(macroname, idx) == FALSE
SkipsArgument(macroname, idx) == macroname = <<"href">> /\ idx = 1

RECURSIVE collect_replacements(_, _, _, _)
RECURSIVE process_node(_, _, _, _)

CollectRevisiting(nodes, content, context, acc) ==
    IF nodes = <<>> THEN acc
    ELSE collect_replacements(Tail(nodes), content, context,
             process_node(Head(nodes), content, context,
                          process_node(Head(nodes), content, context, acc)))
collect_replacements(nodes, content, context, acc) ==
    IF nodes = <<>> THEN acc
    ELSE collect_replacements(Tail(nodes), content, context,
                              process_node(Head(nodes), content, context, acc))

process_node(node, content, context, acc) ==
    IF node.kind = "chars" THEN
        IF context.in_verbatim \/ context.in_math \/ context.in_tabular THEN acc
        ELSE LET chars == Slice(content, node.pos, node.pos + node.len)
                 sanitized == escape_specials_in_text(chars)
             IN  IF sanitized # chars
                 THEN Acc(Append(acc.replacements,
                                 <<node.pos, node.pos + node.len, sanitized>>), acc.state)
                 ELSE acc
    ELSE IF node.kind = "comment" THEN
        IF ~context.in_document THEN acc
        ELSE LET segment == Slice(content, node.pos, node.pos + node.len)
                 line_start == LineStart(content, node.pos)
                 line_prefix == Slice(content, line_start, node.pos)
             IN  IF HasText(line_prefix)
                 THEN Acc(Append(acc.replacements,
                                 <<node.pos, node.pos + node.len,
                                   <<BS, "%">> \o Tail(segment)>>), acc.state)
                 ELSE acc
    ELSE IF node.kind = "specials" THEN
        IF context.in_tabular \/ context.in_math \/ context.in_verbatim THEN acc
        ELSE LET specials == node.name
                 sanitized == escape_specials_in_text(specials)
             IN  IF sanitized # specials
                 THEN Acc(Append(acc.replacements,
                                 <<node.pos, node.pos + node.len, sanitized>>), acc.state)
                 ELSE acc
    ELSE IF node.kind = "environment" THEN
        LET env_name == node.name
            isdoc == env_name = <<"document">>
            acc1 == IF isdoc
                    THEN Acc(acc.replacements,
                             TraversalState(acc.state.documentclass_seen, TRUE))
                    ELSE acc
            context1 == IF isdoc THEN with_document(context) ELSE context
            env_lower == Lower(env_name)
        IN  IF env_lower \in VERBATIM_ENVIRONMENTS THEN acc1
            ELSE IF is_tabular_environment(env_lower) THEN acc1
            ELSE collect_replacements(node.nodelist, content,
                     IF is_math_environment(env_lower) THEN with_math(context1)
                     ELSE context1, acc1)
    ELSE IF node.kind = "math" THEN
        collect_replacements(node.nodelist, content, with_math(context), acc)
    ELSE IF node.kind = "group" THEN
        collect_replacements(node.nodelist, content, context, acc)
    ELSE IF node.kind = "macro" THEN
        LET macroname == node.name
            acc1 == IF macroname = <<"documentclass">>
                    THEN Acc(acc.replacements,
                             TraversalState(TRUE, acc.state.document_environment_seen))
                    ELSE acc
        IN  IF macroname \in VERBATIM_MACROS THEN acc1
            ELSE collect_replacements(
                     Flatten([idx \in 1..Len(node.argnlist) |->
                         IF SkipsArgument(macroname, idx) THEN <<>>
                         ELSE node.argnlist[idx].nodelist]),
                     content, context, acc1)
    ELSE collect_replacements(node.nodelist, content, context, acc)

KeepOrder(items) == items
(* sorted(replacements, key=start, reverse=True): a stable sort.            *)
RECURSIVE InsertDescending(_, _)
InsertDescending(sorted, item) ==
    IF sorted = <<>> THEN <<item>>
    ELSE IF Head(sorted)[1] >= item[1]
         THEN <<Head(sorted)>> \o InsertDescending(Tail(sorted), item)
         ELSE <<item>> \o sorted
RECURSIVE SortDescending(_)
SortDescending(items) ==
    IF items = <<>> THEN <<>>
    ELSE InsertDescending(SortDescending(SubSeq(items, 1, Len(items) - 1)),
                          items[Len(items)])

RECURSIVE ApplyInOrder(_, _)
ApplyInOrder(updated, items) ==
    IF items = <<>> THEN updated
    ELSE ApplyInOrder(Slice(updated, 0, Head(items)[1]) \o Head(items)[3]
                          \o Slice(updated, Head(items)[2], Len(updated)),
                      Tail(items))

apply_replacements(content, replacements) ==
    IF replacements = <<>> THEN content
    ELSE ApplyInOrder(content, SortDescending(replacements))

Walk(content) ==
    collect_replacements(get_latex_nodes(content), content,
                         TraversalContext(FALSE, FALSE, FALSE, FALSE),
                         Acc(<<>>, TraversalState(FALSE, FALSE)))

sanitize_content_ast(content) == apply_replacements(content, Walk(content).replacements)

(* Every node of a node list, with the nodes below it (children, arguments). *)
RECURSIVE Descendants(_)
Descendants(nodes) ==
    IF nodes = <<>> THEN <<>>
    ELSE <<Head(nodes)>> \o Descendants(Head(nodes).nodelist)
             \o Descendants(Head(nodes).argnlist) \o Descendants(Tail(nodes))

(* The node is complete: its closing delimiter is there and belongs to it,  *)
(* and it is a node the walker's latex context knows how to read.           *)
NodeComplete(s, node) ==
    LET last == node.nodelist[Len(node.nodelist)]
        inner_end == IF node.nodelist = <<>> THEN node.pos + 1
                     ELSE last.pos + last.len
    IN  CASE node.kind \in {"other", "none"} -> FALSE
          [] node.kind = "macro" /\ node.name = <<"verb">> ->
                 node.len >= 3 /\ s[node.pos + node.len] = s[node.pos + 2]
          [] node.kind = "environment" /\ node.name = <<"verbatim">> ->
                 s[node.pos + node.len] = EnvironmentCloser(BeginVerbatim)
          [] node.kind \in {"group", "math", "environment"} ->
                 inner_end = node.pos + node.len - 1
          [] OTHER -> TRUE

(* The inputs of the structural path are texts that parse without error     *)
(* recovery: every group, environment, math span and \verb is closed.       *)
WellFormedContent(s) ==
    LET all == Descendants(get_latex_nodes(s))
    IN  /\ \A k \in 1..Len(all) : NodeComplete(s, all[k])
        /\ \A k \in 1..(Len(s) - 1) : ~(s[k] = "$" /\ s[k + 1] = "$")

(* ------------------------------------------------------------------------ *)
(* latex_sanitizer.py: the regex fallback and the public entry point        *)
(* ------------------------------------------------------------------------ *)
(* \\begin\{tabular[^}]*\} and \\end\{tabular[^}]*\} match these lexemes.   *)
TabularBegins == {BeginTabular, BeginTabularx}
TabularEnds == {EndTabular, "\\end{tabularx}"}

(* The next match of the tabular pattern at or after `from`: <<start, end>>, *)
(* or <<>> if there is none.  (.*?) is lazy: the first \end after \begin.   *)
NextTabularMatch(content, from) ==
    LET b == RunEnd(content, from, {content[k] : k \in 1..Len(content)} \ TabularBegins)
        e == RunEnd(content, b + 1, {content[k] : k \in 1..Len(content)} \ TabularEnds)
    IN  IF b < Len(content) /\ e < Len(content) THEN <<b, e + 1>> ELSE <<>>

RECURSIVE FallbackSegments(_, _)
FallbackSegments(content, last_end) ==
    LET m == NextTabularMatch(content, last_end)
    IN  IF m = <<>>
        THEN IF last_end < Len(content)
             THEN escape_specials_in_text(Slice(content, last_end, Len(content)))
             ELSE <<>>
        ELSE (IF m[1] > last_end
              THEN escape_specials_in_text(Slice(content, last_end, m[1]))
              ELSE <<>>)
             \o Slice(content, m[1], m[2])
             \o FallbackSegments(content, m[2])

fallback_sanitize(content) == FallbackSegments(content, 0)

(* sanitize_content: the structural path, or the fallback when the walker   *)
(* or the walk raises.                                                      *)
sanitize_content(content, raises) ==
    IF raises THEN fallback_sanitize(content) ELSE sanitize_content_ast(content)

(* What the walker or the walk can raise, and the two except clauses of     *)
(* sanitize_content: LatexWalkerParseError, then Exception.                 *)
WalkerExceptions == {"LatexWalkerParseError", "RecursionError"}
SanitizerCatchesParseErrorOnly(exc) == exc = "LatexWalkerParseError"
SanitizerCatches(exc) == exc = "LatexWalkerParseError" \/ exc \in WalkerExceptions
(* The text that stands for an exception leaving sanitize_content.          *)
Propagated == <<"Traceback">>

(* ------------------------------------------------------------------------ *)
(* Paths.  A path is a sequence of symbols: directory names, "/", the       *)
(* characters of the base name, and the extension as one lexeme.  Paths are *)
(* absolute and free of symbolic links, so Path.resolve() is the identity.  *)
(* ------------------------------------------------------------------------ *)
MaxStem == 2
StemChars == {"a", "_", SP}
(* [A-Za-z0-9._-] among the symbols of a base name                          *)
SafeJobnameChars == {"a", "_", ".tex"}
Stems == UNION {[1..n -> StemChars] : n \in 1..MaxStem}
Dirs == {<<"d">>, <<"d", ".tex">>}
TexPath(dir, stem) == dir \o <<"/">> \o stem \o <<".tex">>
DescriptorPaths == {TexPath(dir, stem) : dir \in Dirs, stem \in Stems}

RECURSIVE LastSlash(_, _)
LastSlash(path, k) ==
    IF k = 0 \/ path[k] = "/" THEN k ELSE LastSlash(path, k - 1)
(* Path.parent, Path.name and Path.stem                                     *)
Parent(path) == SubSeq(path, 1, LastSlash(path, Len(path)) - 1)
BaseName(path) == SubSeq(path, LastSlash(path, Len(path)) + 1, Len(path))
Stem(path) == SubSeq(BaseName(path), 1, Len(BaseName(path)) - 1)
resolve(path) == path

ReplaceEachUnsafe(name) ==
    [i \in 1..Len(name) |-> IF name[i] \in SafeJobnameChars THEN name[i] ELSE "_"]
(* re.sub(r"[^A-Za-z0-9._-]+", "_", name)                                   *)
RECURSIVE safe_jobname(_)
safe_jobname(name) ==
    IF name = <<>> THEN <<>>
    ELSE IF Head(name) \in SafeJobnameChars
         THEN <<Head(name)>> \o safe_jobname(Tail(name))
         ELSE <<"_">> \o safe_jobname(
                  SubSeq(name, RunEnd(name, 0, StemChars \ SafeJobnameChars) + 1,
                         Len(name)))

(* output_dir / f"{safe_jobname}{ext}"                                      *)
OutputFile(tex_path, ext) ==
    Parent(tex_path) \o <<"/">> \o safe_jobname(Stem(tex_path)) \o <<ext>>

(* cleanup_aux_files: tex_path.replace(".tex", "") and the seven suffixes   *)
AuxExtensions ==
    <<".aux", ".log", ".out", ".toc", ".fdb_latexmk", ".fls", ".synctex.gz">>
NotTexSuffix(sym) == sym # ".tex"
base_path(tex_path) == SelectSeq(tex_path, NotTexSuffix)
aux_files(tex_path) ==
    [i \in 1..Len(AuxExtensions) |-> base_path(tex_path) \o <<AuxExtensions[i]>>]

(* ------------------------------------------------------------------------ *)
(* State                                                                    *)
(* ------------------------------------------------------------------------ *)
VARIABLES
    files,          \* the paths that exist on disk
    content,        \* the text of each existing .tex source
    writable,       \* the directories os.access(dir, W_OK) accepts
    pc,             \* where each caller is: compile(), then cleanup()
    desc,           \* the descriptor path each caller passes
    result,         \* what compile gave: Pending, NoResult, Raised or a CompilationResult
    engineCalls,    \* the subprocess.run calls of each compile, in order
    sanitizeCalls,  \* how many times each compile called sanitize_file
    touched,        \* the paths each caller has read, tested, written or deleted
    modified,       \* the paths each caller has written or deleted
    engineWrote,    \* the files the engine wrote for each compile
    cleanupIndex,   \* how many of the seven auxiliary files cleanup has visited
    removeFailed,   \* whether an os.remove of this cleanup raised
    cleanupOutcome, \* "pending", "returned" or "raised"
    text,           \* sanitizer runs: the input and the output of each pass
    walkerRaised,   \* sanitizer runs: whether each pass took the fallback
    progress,       \* InMemoryProgressTracker._progress: the state of each session
    calls,          \* how many calls of each tracker method have been applied
    batch,          \* BatchEnhanceUseCase.execute: position, jobs, len(results)
    wrapped         \* _wrapped_job: position, outcome of job_fn, callbacks invoked

compilerVars ==
    <<files, content, writable, pc, desc, result, engineCalls, sanitizeCalls,
      touched, modified, engineWrote, cleanupIndex, removeFailed, cleanupOutcome>>
sanitizerVars == <<text, walkerRaised>>
serviceVars == <<progress, calls, batch, wrapped>>
vars == <<compilerVars, sanitizerVars, serviceVars>>

Procs == {1, 2}
(* What compile gave its caller; NoPath stands for a log_path of None.       *)
NoPath == <<>>
Outcome(kind, pdf_path, log_path) ==
    [kind |-> kind, pdf_path |-> pdf_path, log_path |-> log_path]
Pending == Outcome("pending", NoPath, NoPath)
NoResult == Outcome("None", NoPath, NoPath)
Raised == Outcome("raised", NoPath, NoPath)
CompilationResult(pdf_path, log_path) == Outcome("CompilationResult", pdf_path, log_path)

SampleContents ==
    {<<BeginDocument, "a", "&", NL, EndDocument>>, <<BeginDocument, "a", NL, EndDocument>>}

(* The exceptions the model's environment can raise.                        *)
EngineExceptions == {"TimeoutExpired", "FileNotFoundError", "PermissionError"}
EngineOutcomes == EngineExceptions \cup {"exit0", "exit1"}
EngineOutputs == SUBSET {".aux", ".log", ".pdf"}

(* A handler that lets a refused deletion through.                          *)
CleanupCatchesMissingFileOnly(exc) == exc = "FileNotFoundError"

(* except subprocess.TimeoutExpired / except FileNotFoundError              *)
CompileCatches(exc) == exc \in {"TimeoutExpired", "FileNotFoundError"}
(* except Exception around the whole of cleanup_aux_files                   *)
CleanupCatches(exc) == exc \in {"FileNotFoundError", "PermissionError"}

InitProc(active) ==
    /\ pc = [p \in Procs |-> IF p \in active THEN "compile" ELSE "off"]
    /\ result = [p \in Procs |-> Pending]
    /\ engineCalls = [p \in Procs |-> <<>>]
    /\ sanitizeCalls = [p \in Procs |-> 0]
    /\ touched = [p \in Procs |-> {}]
    /\ modified = [p \in Procs |-> {}]
    /\ engineWrote = [p \in Procs |-> {}]
    /\ cleanupIndex = [p \in Procs |-> 0]
    /\ removeFailed = [p \in Procs |-> FALSE]
    /\ cleanupOutcome = [p \in Procs |-> "pending"]

InitSanitizerIdle ==
    /\ text = <<>>
    /\ walkerRaised = <<>>

(* ------------------------------------------------------------------------ *)
(* InMemoryProgressTracker: the state dict of a session and its methods.    *)
(* Each method body runs under the tracker's lock.  message and zip_path    *)
(* are carried along and not modelled.                                      *)
(* ------------------------------------------------------------------------ *)
Sessions == {"s1"}
Methods == {"init", "update", "increment", "mark_error", "complete", "fail"}
(* self._progress.get(session_id) is None                                   *)
Untracked == [total |-> 0, current |-> 0, status |-> "untracked", errors |-> 0]

init(state, total) ==
    [total |-> IF total > 0 THEN total ELSE 0, current |-> 0,
     status |-> "running", errors |-> 0]
update(state, current) ==
    IF state = Untracked THEN state
    ELSE LET upper == IF current < state.total THEN current ELSE state.total
         IN  [state EXCEPT !.current = IF upper > 0 THEN upper ELSE 0]
increment(state, inc) ==
    IF state = Untracked THEN state
    ELSE [state EXCEPT !.current =
             IF state.current + inc < state.total THEN state.current + inc
             ELSE state.total]
NoMarkError(state) == state
mark_error(state) ==
    IF state = Untracked THEN state ELSE [state EXCEPT !.errors = @ + 1]
complete(state) ==
    IF state = Untracked THEN state
    ELSE [state EXCEPT !.current = state.total, !.status = "completed"]
fail(state) == [total |-> 0, current |-> 0, status |-> "failed", errors |-> 0]

(* No tracker session, no batch and no background job.                      *)
InitServicesIdle ==
    /\ progress = [s \in Sessions |-> Untracked]
    /\ calls = [m \in Methods |-> 0]
    /\ batch = [pc |-> "idle", jobs |-> <<>>, idx |-> 0, results |-> 0]
    /\ wrapped = [pc |-> "idle", outcome |-> "pending", on_complete |-> 0, on_error |-> 0]

(* The compiler and the sanitizer at rest.                                  *)
InitCoreIdle ==
    /\ desc = [p \in Procs |-> TexPath(<<"d">>, <<"a">>)]
    /\ files = {}
    /\ content = <<>>
    /\ writable = {}
    /\ InitProc({})
    /\ InitSanitizerIdle

Init ==
    /\ \E path \in DescriptorPaths : desc = [p \in Procs |-> path]
    /\ files \in SUBSET {desc[1]}
    /\ content \in [files -> SampleContents]
    /\ writable \in SUBSET {Parent(desc[1])}
    /\ InitProc({1})
    /\ InitSanitizerIdle
    /\ InitServicesIdle

(* ------------------------------------------------------------------------ *)
(* LualatexCompiler.compile                                                 *)
(* ------------------------------------------------------------------------ *)
Return(p, value) ==
    /\ result' = [result EXCEPT ![p] = value]
    /\ pc' = [pc EXCEPT ![p] = IF value = Raised THEN "aborted" ELSE "cleanup"]

(* The precondition checks without the test that the source file exists.    *)
PrecheckWithoutExists(p) ==
    /\ pc[p] = "compile"
    /\ IF Parent(resolve(desc[p])) \notin writable
       THEN Return(p, NoResult)
       ELSE /\ pc' = [pc EXCEPT ![p] = "sanitize"]
            /\ UNCHANGED result
    /\ UNCHANGED <<files, content, writable, desc, engineCalls, sanitizeCalls, touched,
                   modified, engineWrote, cleanupIndex, removeFailed, cleanupOutcome>>
    /\ UNCHANGED <<sanitizerVars, serviceVars>>

(* lines 25-33: the two precondition checks                                 *)
Precheck(p) ==
    /\ pc[p] = "compile"
    /\ LET tex_path == resolve(desc[p])
           output_dir == Parent(tex_path)
       IN  IF output_dir \notin writable
           THEN /\ Return(p, NoResult)
                /\ UNCHANGED touched
           ELSE /\ touched' = [touched EXCEPT ![p] = @ \cup {tex_path}]
                /\ IF tex_path \notin files
                   THEN Return(p, NoResult)
                   ELSE /\ pc' = [pc EXCEPT ![p] = "sanitize"]
                        /\ UNCHANGED result
    /\ UNCHANGED <<files, content, writable, desc, engineCalls, sanitizeCalls,
                   modified, engineWrote, cleanupIndex, removeFailed, cleanupOutcome>>
    /\ UNCHANGED <<sanitizerVars, serviceVars>>

(* A sanitization step whose failure ends compile with None.                *)
SanitizeAborting(p) ==
    /\ pc[p] = "sanitize"
    /\ LET tex_path == resolve(desc[p])
       IN  /\ sanitizeCalls' = [sanitizeCalls EXCEPT ![p] = @ + 1]
           /\ touched' = [touched EXCEPT ![p] = @ \cup {tex_path}]
           /\ \E io_error \in BOOLEAN, walker_raises \in BOOLEAN :
                IF io_error \/ tex_path \notin files
                THEN /\ Return(p, NoResult)
                     /\ UNCHANGED <<content, modified>>
                ELSE /\ pc' = [pc EXCEPT ![p] = "engine1"]
                     /\ UNCHANGED result
                     /\ LET sanitized == sanitize_content(content[tex_path], walker_raises)
                        IN  IF sanitized # content[tex_path]
                            THEN /\ content' = [content EXCEPT ![tex_path] = sanitized]
                                 /\ modified' = [modified EXCEPT ![p] = @ \cup {tex_path}]
                            ELSE UNCHANGED <<content, modified>>
    /\ UNCHANGED <<files, writable, desc, engineCalls, engineWrote,
                   cleanupIndex, removeFailed, cleanupOutcome>>
    /\ UNCHANGED <<sanitizerVars, serviceVars>>

(* A sanitization step that writes the file back whether it changed or not. *)
SanitizeAlwaysWriting(p) ==
    /\ pc[p] = "sanitize"
    /\ LET tex_path == resolve(desc[p])
       IN  /\ sanitizeCalls' = [sanitizeCalls EXCEPT ![p] = @ + 1]
           /\ touched' = [touched EXCEPT ![p] = @ \cup {tex_path}]
           /\ \E io_error \in BOOLEAN, walker_raises \in BOOLEAN :
                IF io_error \/ tex_path \notin files
                THEN UNCHANGED <<content, modified>>
                ELSE /\ content' = [content EXCEPT ![tex_path] =
                                       sanitize_content(content[tex_path], walker_raises)]
                     /\ modified' = [modified EXCEPT ![p] = @ \cup {tex_path}]
    /\ pc' = [pc EXCEPT ![p] = "engine1"]
    /\ UNCHANGED <<files, writable, desc, result, engineCalls, engineWrote,
                   cleanupIndex, removeFailed, cleanupOutcome>>
    /\ UNCHANGED <<sanitizerVars, serviceVars>>

(* lines 35-38 and sanitize_file: read, sanitize, write back if changed;    *)
(* whatever sanitize_file raises is caught and compile goes on.             *)
Sanitize(p) ==
    /\ pc[p] = "sanitize"
    /\ LET tex_path == resolve(desc[p])
       IN  /\ sanitizeCalls' = [sanitizeCalls EXCEPT ![p] = @ + 1]
           /\ touched' = [touched EXCEPT ![p] = @ \cup {tex_path}]
           /\ \E io_error \in BOOLEAN, walker_raises \in BOOLEAN :
                IF io_error \/ tex_path \notin files
                THEN UNCHANGED <<content, modified>>
                ELSE LET sanitized == sanitize_content(content[tex_path], walker_raises)
                     IN  IF sanitized # content[tex_path]
                         THEN /\ content' = [content EXCEPT ![tex_path] = sanitized]
                              /\ modified' = [modified EXCEPT ![p] = @ \cup {tex_path}]
                         ELSE UNCHANGED <<content, modified>>
    /\ pc' = [pc EXCEPT ![p] = "engine1"]
    /\ UNCHANGED <<files, writable, desc, result, engineCalls, engineWrote,
                   cleanupIndex, removeFailed, cleanupOutcome>>
    /\ UNCHANGED <<sanitizerVars, serviceVars>>

(* An outcome handling that also retries after a timeout of the first call. *)
AfterEngineRetryingTimeout(p, outcome) ==
    IF outcome = "exit1" \/ (outcome = "TimeoutExpired" /\ pc[p] = "engine1")
    THEN IF pc[p] = "engine1"
         THEN /\ pc' = [pc EXCEPT ![p] = "engine2"]
              /\ UNCHANGED result
         ELSE Return(p, NoResult)
    ELSE IF outcome \in EngineExceptions
    THEN Return(p, IF CompileCatches(outcome) THEN NoResult ELSE Raised)
    ELSE /\ pc' = [pc EXCEPT ![p] = "checkpdf"]
         /\ UNCHANGED result

(* An outcome handling whose fallback falls back again.                     *)
AfterEngineRetryingAgain(p, outcome) ==
    IF outcome \in EngineExceptions
    THEN Return(p, IF CompileCatches(outcome) THEN NoResult ELSE Raised)
    ELSE IF outcome = "exit1"
    THEN /\ pc' = [pc EXCEPT ![p] = "engine2"]
         /\ UNCHANGED result
    ELSE /\ pc' = [pc EXCEPT ![p] = "checkpdf"]
         /\ UNCHANGED result

(* After an engine call: what compile (first call) or _try_alternative      *)
(* (second call) does with its outcome.                                     *)
AfterEngine(p, outcome) ==
    IF outcome \in EngineExceptions
    THEN Return(p, IF CompileCatches(outcome) THEN NoResult ELSE Raised)
    ELSE IF outcome = "exit1"
    THEN IF pc[p] = "engine1"
         THEN /\ pc' = [pc EXCEPT ![p] = "engine2"]
              /\ UNCHANGED result
         ELSE Return(p, NoResult)
    ELSE /\ pc' = [pc EXCEPT ![p] = "checkpdf"]
         /\ UNCHANGED result

(* lines 54-88 and 127-163: subprocess.run of lualatex, first with cwd=None *)
(* and, after a non-zero exit, once more with cwd=project_root.  The engine *)
(* is external: any outcome, and any of its output files left behind.       *)
EngineRun(p, outcomes, outputs) ==
    /\ pc[p] \in {"engine1", "engine2"}
    /\ \E outcome \in outcomes, exts \in outputs :
        LET tex_path == resolve(desc[p])
            ran == outcome \notin {"FileNotFoundError", "PermissionError"}
            out == IF ran THEN {OutputFile(tex_path, e) : e \in exts} ELSE {}
            cwd == IF pc[p] = "engine1" THEN "default" ELSE "project_root"
        IN  /\ ~ran => exts = {}
            /\ engineCalls' = [engineCalls EXCEPT ![p] =
                                  Append(@, [cwd |-> cwd, outcome |-> outcome])]
            /\ files' = files \cup out
            /\ engineWrote' = [engineWrote EXCEPT ![p] = @ \cup out]
            /\ touched' = [touched EXCEPT ![p] =
                              @ \cup out \cup (IF ran THEN {tex_path} ELSE {})]
            /\ modified' = [modified EXCEPT ![p] = @ \cup out]
            /\ AfterEngine(p, outcome)
    /\ UNCHANGED <<content, writable, desc, sanitizeCalls, cleanupIndex,
                   removeFailed, cleanupOutcome>>
    /\ UNCHANGED <<sanitizerVars, serviceVars>>

Engine(p) == EngineRun(p, EngineOutcomes, EngineOutputs)

(* A result built on the exit status alone.                                 *)
CheckPdfTrustingExitStatus(p) ==
    /\ pc[p] = "checkpdf"
    /\ LET pdf_path == OutputFile(resolve(desc[p]), ".pdf")
           log_path == OutputFile(resolve(desc[p]), ".log")
       IN  Return(p, CompilationResult(pdf_path,
                         IF log_path \in files THEN log_path ELSE NoPath))
    /\ UNCHANGED <<files, content, writable, desc, engineCalls, sanitizeCalls, touched,
                   modified, engineWrote, cleanupIndex, removeFailed, cleanupOutcome>>
    /\ UNCHANGED <<sanitizerVars, serviceVars>>

(* lines 90-98 and 165-173: the PDF must exist; the log is optional         *)
CheckPdf(p) ==
    /\ pc[p] = "checkpdf"
    /\ LET tex_path == resolve(desc[p])
           pdf_path == OutputFile(tex_path, ".pdf")
           log_path == OutputFile(tex_path, ".log")
       IN  /\ touched' = [touched EXCEPT ![p] =
                             @ \cup {pdf_path} \cup
                             (IF pdf_path \in files THEN {log_path} ELSE {})]
           /\ IF pdf_path \notin files
              THEN Return(p, NoResult)
              ELSE Return(p, CompilationResult(pdf_path,
                              IF log_path \in files THEN log_path ELSE NoPath))
    /\ UNCHANGED <<files, content, writable, desc, engineCalls, sanitizeCalls,
                   modified, engineWrote, cleanupIndex, removeFailed, cleanupOutcome>>
    /\ UNCHANGED <<sanitizerVars, serviceVars>>

(* ------------------------------------------------------------------------ *)
(* LualatexCompiler.cleanup -> LatexSanitizer.cleanup_aux_files             *)
(* ------------------------------------------------------------------------ *)
(* One turn of the for loop: os.path.exists, then os.remove, which the file *)
(* system may refuse.  The try block encloses the whole loop, so a raise    *)
(* ends the loop; the handler decides whether cleanup returns or raises.    *)
CleanupStep(p) ==
    /\ pc[p] = "cleanup"
    /\ cleanupIndex[p] < Len(AuxExtensions)
    /\ LET aux_file == aux_files(desc[p])[cleanupIndex[p] + 1]
           last == cleanupIndex[p] + 1 = Len(AuxExtensions)
       IN  /\ cleanupIndex' = [cleanupIndex EXCEPT ![p] = @ + 1]
           /\ touched' = [touched EXCEPT ![p] = @ \cup {aux_file}]
           /\ IF aux_file \notin files
              THEN /\ UNCHANGED <<files, modified, removeFailed>>
                   /\ pc' = [pc EXCEPT ![p] = IF last THEN "done" ELSE "cleanup"]
                   /\ cleanupOutcome' = [cleanupOutcome EXCEPT ![p] =
                                            IF last THEN "returned" ELSE @]
              ELSE \E refused \in BOOLEAN :
                   IF refused
                   THEN /\ removeFailed' = [removeFailed EXCEPT ![p] = TRUE]
                        /\ pc' = [pc EXCEPT ![p] = "done"]
                        /\ cleanupOutcome' = [cleanupOutcome EXCEPT ![p] =
                               IF CleanupCatches("PermissionError")
                               THEN "returned" ELSE "raised"]
                        /\ UNCHANGED <<files, modified>>
                   ELSE /\ files' = files \ {aux_file}
                        /\ modified' = [modified EXCEPT ![p] = @ \cup {aux_file}]
                        /\ pc' = [pc EXCEPT ![p] = IF last THEN "done" ELSE "cleanup"]
                        /\ cleanupOutcome' = [cleanupOutcome EXCEPT ![p] =
                                                 IF last THEN "returned" ELSE @]
                        /\ UNCHANGED removeFailed
    /\ UNCHANGED <<content, writable, desc, result, engineCalls, sanitizeCalls,
                   engineWrote>>
    /\ UNCHANGED <<sanitizerVars, serviceVars>>

Next ==
    \E p \in Procs :
        \/ Precheck(p)
        \/ Sanitize(p)
        \/ Engine(p)
        \/ CheckPdf(p)
        \/ CleanupStep(p)

Spec == Init /\ [][Next]_vars

(* ------------------------------------------------------------------------ *)
(* One caller on a present source file in a writable directory, while the   *)
(* directory d holds auxiliary files of the same base name, left there by   *)
(* an earlier compile of d/<base>.tex.                                      *)
(* ------------------------------------------------------------------------ *)
InitNeighbour ==
    /\ \E path \in DescriptorPaths : desc = [p \in Procs |-> path]
    /\ \E left \in SUBSET {".aux", ".log"} :
          files = {desc[1]} \cup {<<"d", "/">> \o Stem(desc[1]) \o <<e>> : e \in left}
    /\ content \in [{desc[1]} -> SampleContents]
    /\ writable = {Parent(desc[1])}
    /\ InitProc({1})
    /\ InitSanitizerIdle
    /\ InitServicesIdle

SpecNeighbour == InitNeighbour /\ [][Next]_vars

(* ------------------------------------------------------------------------ *)
(* Two callers on two distinct source files of one directory, both present  *)
(* and writable.                                                            *)
(* ------------------------------------------------------------------------ *)
ConcurrentPaths == {TexPath(<<"d">>, <<c>>) : c \in StemChars}

InitConcurrent ==
    /\ \E p1 \in ConcurrentPaths, p2 \in ConcurrentPaths :
          /\ p1 # p2
          /\ desc = [p \in Procs |-> IF p = 1 THEN p1 ELSE p2]
    /\ files = {desc[1], desc[2]}
    /\ content = [f \in files |-> <<BeginDocument, "a", "&", NL, EndDocument>>]
    /\ writable = {Parent(desc[1]), Parent(desc[2])}
    /\ InitProc(Procs)
    /\ InitSanitizerIdle
    /\ InitServicesIdle

(* The engine of the concurrent runs is installed and never times out; it   *)
(* leaves its .aux and .log, and its .pdf or not.                           *)
EngineInstalled(p) ==
    EngineRun(p, {"exit0", "exit1"}, {{".aux", ".log"}, {".aux", ".log", ".pdf"}})

NextConcurrent ==
    \E p \in Procs :
        \/ Precheck(p)
        \/ Sanitize(p)
        \/ EngineInstalled(p)
        \/ CheckPdf(p)
        \/ CleanupStep(p)

SpecConcurrent == InitConcurrent /\ [][NextConcurrent]_vars

(* ------------------------------------------------------------------------ *)
(* Runs of sanitize_content alone: a document, sanitized pass after pass.   *)
(* ------------------------------------------------------------------------ *)
MaxBody == 4
MaxPasses == 2
BodySymbols == {"a", SP, NL, "&", "%", "_", BS}
Bodies == UNION {[1..n -> BodySymbols] : n \in 0..MaxBody}
Preambles == {<<>>, <<"%", "&", NL>>}
Document(pre, body) == pre \o <<BeginDocument>> \o body \o <<EndDocument>>
(* The inputs are documents whose \end{document} closes the environment:    *)
(* it is not swallowed by a comment or taken for a macro name.              *)
WellFormed(pre, body) ==
    ParseNodes(Document(pre, body), Len(pre) + 1, EndDocument).closed

(* A sanitizer run starts with its input and nothing else going on.         *)
InitSanitizerOn(inputs) ==
    /\ \E input \in inputs : text = <<input>>
    /\ walkerRaised = <<>>
    /\ desc = [p \in Procs |-> TexPath(<<"d">>, <<"a">>)]
    /\ files = {}
    /\ content = <<>>
    /\ writable = {}
    /\ InitProc({})
    /\ InitServicesIdle

InitSanitize ==
    InitSanitizerOn({Document(pre, body) : pre \in Preambles,
                     body \in {b \in Bodies : \A pre \in Preambles : WellFormed(pre, b)}})

(* text[1] is the input; text[k + 1] = sanitize_content(text[k]), the       *)
(* walker returning or raising one of `exceptions`.                         *)
SanitizePass(exceptions) ==
    /\ Len(text) <= MaxPasses
    /\ text[Len(text)] # Propagated
    /\ \E exc \in exceptions :
          /\ text' = Append(text,
                 IF exc = "none" THEN sanitize_content(text[Len(text)], FALSE)
                 ELSE IF SanitizerCatches(exc)
                      THEN sanitize_content(text[Len(text)], TRUE)
                      ELSE Propagated)
          /\ walkerRaised' = Append(walkerRaised, exc # "none")
    /\ UNCHANGED <<compilerVars, serviceVars>>

NextSanitize == SanitizePass({"none"} \cup WalkerExceptions)

SpecSanitize == InitSanitize /\ [][NextSanitize]_vars

(* Documents with tabular-like environments and prose.                      *)
TabularSymbols ==
    {"a", "&", NL, BeginTabular, EndTabular, BeginTabularx,
     EnvironmentCloser(BeginTabularx)}
TabularDocuments ==
    {d \in {Document(<<>>, body) :
               body \in UNION {[1..n -> TabularSymbols] : n \in 0..MaxBody}} :
        WellFormedContent(d)}
InitTabular == InitSanitizerOn(TabularDocuments)
SpecTabular == InitTabular /\ [][NextSanitize]_vars

(* Documents with comments: in the body, and in a preamble that holds a     *)
(* full-line comment or a comment after text.                               *)
CommentDocuments ==
    {d \in {Document(pre, body) :
               pre \in {<<>>, <<"%", "&", NL>>, <<"a", "%", "&", NL>>},
               body \in UNION {[1..n -> {"a", SP, NL, "&", "%"}] : n \in 0..MaxBody}} :
        WellFormedContent(d)}
InitComments == InitSanitizerOn(CommentDocuments)
SpecComments == InitComments /\ [][NextSanitize]_vars

(* Documents with one verbatim-like macro or environment between prose:     *)
(* \verb|x|, verbatim, lstlisting, \url{x}, \path{x}.                       *)
MaxRegion == 3
VerbatimRegions(x) ==
    {<<Verb, "|">> \o x \o <<"|">>,
     <<BeginVerbatim>> \o x \o <<EnvironmentCloser(BeginVerbatim)>>,
     <<BeginLstlisting>> \o x \o <<EnvironmentCloser(BeginLstlisting)>>,
     <<Url, "{">> \o x \o <<"}">>,
     <<Path, "{">> \o x \o <<"}">>}
VerbatimDocuments ==
    {d \in {Document(<<>>, pre \o region \o post) :
               pre \in {<<>>, <<"&">>}, post \in {<<>>, <<"&">>},
               region \in UNION {VerbatimRegions(x) :
                   x \in UNION {[1..n -> {"a", "&", "%", "$", NL}] : n \in 0..MaxRegion}}} :
        WellFormedContent(d)}
InitVerbatim == InitSanitizerOn(VerbatimDocuments)
SpecVerbatim == InitVerbatim /\ [][NextSanitize]_vars

(* Documents with \href{url}{label} in the body.                            *)
MaxArg == 2
HrefDocuments ==
    {d \in {Document(<<>>, <<Href, "{">> \o url \o <<"}", "{">> \o label \o <<"}">>) :
               url \in UNION {[1..n -> {"a", "&", "#", "%", NL}] : n \in 0..MaxArg},
               label \in UNION {[1..n -> {"a", "&", "_"}] : n \in 0..MaxArg}} :
        WellFormedContent(d)}
InitHref == InitSanitizerOn(HrefDocuments)
SpecHref == InitHref /\ [][NextSanitize]_vars

(* Documents with one math region between prose: $x$, \[x\], equation,      *)
(* bmatrix.                                                                 *)
MathRegions(x) ==
    {<<"$">> \o x \o <<"$">>,
     <<DisplayOpen>> \o x \o <<DisplayClose>>,
     <<BeginEquation>> \o x \o <<EnvironmentCloser(BeginEquation)>>,
     <<BeginBmatrix>> \o x \o <<EnvironmentCloser(BeginBmatrix)>>}
MathDocuments ==
    {d \in {Document(<<>>, pre \o region \o post) :
               pre \in {<<>>, <<"&">>}, post \in {<<>>, <<"&">>},
               region \in UNION {MathRegions(x) :
                   x \in UNION {[1..n -> {"a", "&", "%", "_", NL, "{", "}"}] :
                                   n \in 0..MaxRegion}}} :
        WellFormedContent(d)}
InitMath == InitSanitizerOn(MathDocuments)
SpecMath == InitMath /\ [][NextSanitize]_vars

(* Runs of the fallback: any text of prose, & and tabular delimiters, on    *)
(* which the walker raises.                                                 *)
MaxContent == 5
FallbackContents ==
    UNION {[1..n -> {"a", "&", NL, BeginTabular, EndTabular}] : n \in 0..MaxContent}
InitFallback == InitSanitizerOn(FallbackContents)
NextFallback == SanitizePass(WalkerExceptions)
SpecFallback == InitFallback /\ [][NextFallback]_vars

(* Runs of the fallback on texts without tabular blocks: the fallback is    *)
(* _escape_specials_in_text applied to the whole text.                      *)
EscapeContents ==
    UNION {[1..n -> {"a", SP, NL, "&", "$", "#", "_", "%", BS}] : n \in 0..MaxBody}
InitEscape == InitSanitizerOn(EscapeContents)
SpecEscape == InitEscape /\ [][NextFallback]_vars

(* ------------------------------------------------------------------------ *)
(* InMemoryProgressTracker called by any number of threads: the lock makes  *)
(* each call one step.  Arguments are any integers of a small range.        *)
(* ------------------------------------------------------------------------ *)
MaxCalls == 4
MaxTotal == 2
Arguments == (0 - 1)..MaxTotal

Call(method, s, new) ==
    /\ calls["init"] + calls["update"] + calls["increment"] + calls["mark_error"]
           + calls["complete"] + calls["fail"] < MaxCalls
    /\ progress' = [progress EXCEPT ![s] = new]
    /\ calls' = [calls EXCEPT ![method] = @ + 1]
    /\ UNCHANGED <<compilerVars, sanitizerVars, batch, wrapped>>

InitTracker ==
    /\ InitCoreIdle
    /\ InitServicesIdle

NextTracker ==
    \E s \in Sessions :
        \/ \E total \in Arguments : Call("init", s, init(progress[s], total))
        \/ \E current \in Arguments : Call("update", s, update(progress[s], current))
        \/ \E inc \in Arguments : Call("increment", s, increment(progress[s], inc))
        \/ Call("mark_error", s, mark_error(progress[s]))
        \/ Call("complete", s, complete(progress[s]))
        \/ Call("fail", s, fail(progress[s]))

SpecTracker == InitTracker /\ [][NextTracker]_vars

(* ------------------------------------------------------------------------ *)
(* BatchEnhanceUseCase.execute as the job_fn of                             *)
(* BackgroundJobExecutor.execute_in_background, both callbacks supplied,    *)
(* the tracker initialised by the caller to total = len(jobs).              *)
(* ------------------------------------------------------------------------ *)
MaxJobs == 3
(* What the enhance and save use cases do for one job.                      *)
JobOutcomes == {"ok", "DomainValidationError", "ApplicationError", "Exception"}

InitBatch ==
    /\ InitCoreIdle
    /\ \E jobs \in UNION {[1..n -> JobOutcomes] : n \in 0..MaxJobs} :
          /\ batch = [pc |-> "start", jobs |-> jobs, idx |-> 0, results |-> 0]
          /\ progress = [s \in Sessions |-> init(Untracked, Len(jobs))]
    /\ calls = [m \in Methods |-> IF m = "init" THEN 1 ELSE 0]
    /\ wrapped = [pc |-> "job_fn", outcome |-> "pending", on_complete |-> 0, on_error |-> 0]

(* _wrapped_job after job_fn: on_complete inside the try block when it      *)
(* returned, the except clause when it raised.                              *)
JobFnEnds(outcome) ==
    wrapped' = [wrapped EXCEPT !.outcome = outcome,
                       !.pc = IF outcome = "returned" THEN "on_complete" ELSE "on_error"]

(* lines 70-77: no jobs is an error; create_main_folder makes a directory.  *)
BatchStart ==
    /\ batch.pc = "start"
    /\ \E mkdir_raises \in BOOLEAN :
          IF batch.jobs = <<>> \/ mkdir_raises
          THEN /\ batch' = [batch EXCEPT !.pc = "raised"]
               /\ JobFnEnds("raised")
          ELSE /\ batch' = [batch EXCEPT !.pc = "loop"]
               /\ UNCHANGED wrapped
    /\ UNCHANGED <<compilerVars, sanitizerVars, progress, calls>>

(* lines 79-128: one turn of the loop over the jobs.                        *)
BatchJob(s) ==
    /\ batch.pc = "loop"
    /\ batch.idx < Len(batch.jobs)
    /\ LET outcome == batch.jobs[batch.idx + 1]
       IN  IF outcome = "ok"
           THEN /\ batch' = [batch EXCEPT !.idx = @ + 1, !.results = @ + 1]
                /\ progress' = [progress EXCEPT ![s] = increment(@, 1)]
                /\ calls' = [calls EXCEPT !["increment"] = @ + 1]
           ELSE /\ batch' = [batch EXCEPT !.idx = @ + 1]
                /\ progress' = [progress EXCEPT ![s] = increment(mark_error(@), 1)]
                /\ calls' = [calls EXCEPT !["mark_error"] = @ + 1,
                                          !["increment"] = @ + 1]
    /\ UNCHANGED <<compilerVars, sanitizerVars, wrapped>>

(* lines 130-136: zip the folder, complete the session, return.             *)
BatchPackage(s) ==
    /\ batch.pc = "loop"
    /\ batch.idx = Len(batch.jobs)
    /\ \E zip_raises \in BOOLEAN :
          IF zip_raises
          THEN /\ batch' = [batch EXCEPT !.pc = "raised"]
               /\ JobFnEnds("raised")
               /\ UNCHANGED <<progress, calls>>
          ELSE /\ batch' = [batch EXCEPT !.pc = "returned"]
               /\ JobFnEnds("returned")
               /\ progress' = [progress EXCEPT ![s] = complete(@)]
               /\ calls' = [calls EXCEPT !["complete"] = @ + 1]
    /\ UNCHANGED <<compilerVars, sanitizerVars>>

(* line 51: on_complete(result), which may itself raise inside the try.     *)
OnComplete ==
    /\ wrapped.pc = "on_complete"
    /\ \E raises \in BOOLEAN :
          wrapped' = [wrapped EXCEPT !.on_complete = @ + 1,
                             !.pc = IF raises THEN "on_error" ELSE "done"]
    /\ UNCHANGED <<compilerVars, sanitizerVars, progress, calls, batch>>

(* lines 52-54: on_error(exc) for whatever the try block raised.            *)
OnError ==
    /\ wrapped.pc = "on_error"
    /\ \E raises \in BOOLEAN :
          wrapped' = [wrapped EXCEPT !.on_error = @ + 1,
                             !.pc = IF raises THEN "raised" ELSE "done"]
    /\ UNCHANGED <<compilerVars, sanitizerVars, progress, calls, batch>>

NextBatch ==
    \/ BatchStart
    \/ \E s \in Sessions : BatchJob(s) \/ BatchPackage(s)
    \/ OnComplete
    \/ OnError

SpecBatch == InitBatch /\ [][NextBatch]_vars

(* ------------------------------------------------------------------------ *)
(* Properties                                                               *)
(* ------------------------------------------------------------------------ *)
Returned(p) == pc[p] = "cleanup" /\ cleanupIndex[p] = 0
LastCall(p) == engineCalls[p][Len(engineCalls[p])]
Suffix(path) == path[Len(path)]

(* C1: compile never raises; every failure path, including any error raised *)
(* while spawning the engine, ends with compile returning None.             *)
C1_CompileNeverRaises ==
    \A p \in Procs : result[p] # Raised

(* C2: if the source file does not exist or its directory is not writable,  *)
(* compile returns None without invoking the engine, without sanitizing and *)
(* without creating or modifying any file.                                  *)
C2_PreconditionFailsFast ==
    \A p \in Procs :
        (Returned(p) /\ (resolve(desc[p]) \notin files
                         \/ Parent(resolve(desc[p])) \notin writable))
        => /\ result[p] = NoResult
           /\ engineCalls[p] = <<>>
           /\ sanitizeCalls[p] = 0
           /\ modified[p] = {}
           /\ files \subseteq {resolve(desc[p])}
C2_Witness ==
    \E p \in Procs :
        /\ Returned(p)
        /\ resolve(desc[p]) \notin files
        /\ Parent(resolve(desc[p])) \in writable

(* C3: if the first engine invocation times out or the executable is not    *)
(* found, compile returns None and the engine is not invoked a second time. *)
C3_NoRetryAfterTimeoutOrMissingEngine ==
    \A p \in Procs :
        (engineCalls[p] # <<>>
         /\ engineCalls[p][1].outcome \in {"TimeoutExpired", "FileNotFoundError"})
        => /\ Len(engineCalls[p]) = 1
           /\ result[p] = NoResult
           /\ pc[p] \notin {"engine1", "engine2", "checkpdf"}
C3_Witness ==
    \E p \in Procs :
        /\ pc[p] = "done"
        /\ engineCalls[p] = <<[cwd |-> "default", outcome |-> "TimeoutExpired"]>>

(* C4: a non-zero exit of the first invocation is followed by exactly one   *)
(* further invocation, run from the project root; there is never a third,   *)
(* and a second happens only after a non-zero exit of the first.            *)
C4_ExactlyOneFallback ==
    \A p \in Procs :
        /\ Len(engineCalls[p]) <= 2
        /\ Len(engineCalls[p]) >= 1 => engineCalls[p][1].cwd = "default"
        /\ Len(engineCalls[p]) = 2
           => /\ engineCalls[p][1].outcome = "exit1"
              /\ engineCalls[p][2].cwd = "project_root"
        /\ (Len(engineCalls[p]) >= 1 /\ engineCalls[p][1].outcome = "exit1"
            /\ pc[p] # "engine2")
           => Len(engineCalls[p]) = 2
C4_Witness ==
    \E p \in Procs :
        /\ pc[p] = "cleanup"
        /\ Len(engineCalls[p]) = 2
        /\ engineCalls[p][2].outcome = "exit1"

(* C5: compile returns a CompilationResult only if its last invocation      *)
(* exited with status 0 and {jobName}.pdf exists in the source's directory; *)
(* status 0 without the PDF yields None.  pdf_path is that file; log_path   *)
(* is {jobName}.log if it exists and None otherwise.                        *)
C5_ResultOnlyWithPdf ==
    \A p \in Procs :
        Returned(p) =>
            LET tex_path == resolve(desc[p])
                pdf == Parent(tex_path) \o <<"/">> \o safe_jobname(Stem(tex_path))
                           \o <<".pdf">>
                log == Parent(tex_path) \o <<"/">> \o safe_jobname(Stem(tex_path))
                           \o <<".log">>
                ok == /\ engineCalls[p] # <<>>
                      /\ LastCall(p).outcome = "exit0"
                      /\ pdf \in files
            IN  IF ok
                THEN result[p] =
                         CompilationResult(pdf, IF log \in files THEN log ELSE NoPath)
                ELSE result[p] = NoResult
C5_Witness ==
    \E p \in Procs :
        /\ Returned(p)
        /\ result[p].kind = "CompilationResult"
        /\ result[p].log_path = NoPath
        /\ Len(engineCalls[p]) = 2

(* C6: two compile-then-cleanup runs on two distinct source paths do not    *)
(* interfere: no file one of them writes or deletes is read, written or     *)
(* deleted by the other.                                                    *)
C6_DistinctPathsDoNotInterfere ==
    \A p \in Procs, q \in Procs :
        (p # q /\ desc[p] # desc[q]) => modified[p] \cap touched[q] = {}

(* C7: after a successful compile and the cleanup that follows it, the .aux *)
(* and .log files the engine wrote are gone, and the .tex source and the    *)
(* .pdf are still there, whatever the name of the source file.              *)
C7_CleanupRemovesEngineAuxAndLog ==
    \A p \in Procs :
        (pc[p] = "done" /\ result[p].kind = "CompilationResult" /\ ~removeFailed[p])
        => /\ \A f \in engineWrote[p] : Suffix(f) \in {".aux", ".log"} => f \notin files
           /\ desc[p] \in files
           /\ result[p].pdf_path \in files

(* C8: every deletion of cleanup is best-effort on its own: when one of     *)
(* them fails, the remaining auxiliary files are still attempted.           *)
C8_EveryAuxFileAttempted ==
    \A p \in Procs : pc[p] = "done" => cleanupIndex[p] = Len(AuxExtensions)

(* C9: cleanup never raises, whatever the state of the auxiliary files:     *)
(* missing, present or undeletable.                                         *)
C9_CleanupNeverRaises ==
    \A p \in Procs :
        /\ cleanupOutcome[p] # "raised"
        /\ pc[p] = "done" => cleanupOutcome[p] = "returned"
C9_Witness ==
    \E p \in Procs : pc[p] = "done" /\ removeFailed[p]

(* C10: sanitize_content is idempotent: a second pass over sanitized text   *)
(* changes nothing.                                                         *)
C10_SanitizeIdempotent ==
    (Len(text) = 3 /\ walkerRaised = <<FALSE, FALSE>>) => text[3] = text[2]

(* ------------------------------------------------------------------------ *)
(* Where a range of the input is in the output of a structural pass: each   *)
(* replacement that ends at or before an offset moves it by its growth.     *)
(* ------------------------------------------------------------------------ *)
RECURSIVE Shift(_, _)
Shift(repls, x) ==
    IF repls = <<>> THEN 0
    ELSE (IF Head(repls)[2] <= x
          THEN Len(Head(repls)[3]) - (Head(repls)[2] - Head(repls)[1]) ELSE 0)
         + Shift(Tail(repls), x)
OutputSlice(input, out, a, b) ==
    LET repls == Walk(input).replacements
    IN  Slice(out, a + Shift(repls, a), b + Shift(repls, b))
StructuralPasses == {k \in 1..(Len(text) - 1) : ~walkerRaised[k]}
NodesOf(input) ==
    LET all == Descendants(get_latex_nodes(input)) IN {all[k] : k \in 1..Len(all)}
Inside(i, node) == node.pos <= i /\ i < node.pos + node.len
Unchanged(input, out, node) ==
    OutputSlice(input, out, node.pos, node.pos + node.len)
        = Slice(input, node.pos, node.pos + node.len)

(* C11: on the structural path every environment whose name starts with     *)
(* tabular, array, longtable or tabu comes out of sanitize_content exactly  *)
(* as it went in, its & unescaped, while every unescaped & of the prose     *)
(* outside such environments comes out as \&.                               *)
TabularLike(input) ==
    {n \in NodesOf(input) :
        n.kind = "environment" /\ n.name[1] \in {"tabular", "array", "longtable", "tabu"}}
C11_TabularUntouchedProseEscaped ==
    \A k \in StructuralPasses :
        /\ \A n \in TabularLike(text[k]) : Unchanged(text[k], text[k + 1], n)
        /\ \A i \in 0..(Len(text[k]) - 1) :
              (/\ text[k][i + 1] = "&"
               /\ (i = 0 \/ text[k][i] # BS)
               /\ \A n \in TabularLike(text[k]) : ~Inside(i, n))
              => OutputSlice(text[k], text[k + 1], i, i + 1) = <<BS, "&">>
C11_Witness ==
    /\ 1 \in StructuralPasses
    /\ \E n \in TabularLike(text[1]) :
          /\ \E i \in 0..(Len(text[1]) - 1) : Inside(i, n) /\ text[1][i + 1] = "&"
          /\ \E i \in 0..(Len(text[1]) - 1) : ~Inside(i, n) /\ text[1][i + 1] = "&"
          /\ n.name = <<"tabular", "x">>

(* C12: on the structural path every verbatim-like macro (\verb, \Verb,     *)
(* \url, \path) and every verbatim, Verbatim, lstlisting or minted          *)
(* environment comes out exactly as it went in, whatever %, & or $ it       *)
(* holds: no replacement has a range that intersects such a node.           *)
VerbatimLike(input) ==
    {n \in NodesOf(input) :
        \/ n.kind = "macro" /\ n.name \in {<<"verb">>, <<"Verb">>, <<"url">>, <<"path">>}
        \/ n.kind = "environment"
             /\ n.name \in {<<"verbatim">>, <<"Verbatim">>, <<"lstlisting">>, <<"minted">>}}
HrefNodes(input) ==
    {n \in NodesOf(input) :
        /\ n.kind = "macro" /\ n.name = <<"href">>
        /\ Len(n.argnlist) = 2
        /\ \A a \in 1..2 : n.argnlist[a].kind = "group"}
(* A text with a backslash put before each unescaped &, # and _ of it.      *)
SpecialsEscaped(t) ==
    Flatten([i \in 1..Len(t) |->
        IF t[i] \in {"&", "#", "_"} /\ (i = 1 \/ t[i - 1] # BS)
        THEN <<BS, t[i]>> ELSE <<t[i]>>])
ArgText(input, arg) == Slice(input, arg.pos, arg.pos + arg.len)
ArgOutput(input, out, arg) == OutputSlice(input, out, arg.pos, arg.pos + arg.len)
HasUnescapedAmpersand(t) ==
    \E i \in 1..Len(t) : t[i] = "&" /\ (i = 1 \/ t[i - 1] # BS)

C14_HrefUrlAndLabelEscaped ==
    \A k \in StructuralPasses :
        \A n \in HrefNodes(text[k]) :
            (/\ HasUnescapedAmpersand(ArgText(text[k], n.argnlist[1]))
             /\ HasUnescapedAmpersand(ArgText(text[k], n.argnlist[2])))
            => /\ ~HasUnescapedAmpersand(ArgOutput(text[k], text[k + 1], n.argnlist[1]))
               /\ ~HasUnescapedAmpersand(ArgOutput(text[k], text[k + 1], n.argnlist[2]))

(* C15: sanitize_content rewrites a comment only if the comment is inside   *)
(* the document environment and its line has non-whitespace text before the *)
(* comment marker, and then exactly the leading % becomes \% and the rest   *)
(* of the comment is kept; every full-line comment and every comment before *)
(* \begin{document} comes out exactly as it went in, even with & or % in it. *)
Comments(input) == {n \in NodesOf(input) : n.kind = "comment"}
InDocumentEnvironment(input, c) ==
    \E n \in NodesOf(input) :
        n.kind = "environment" /\ n.name = <<"document">> /\ Inside(c.pos, n)
TextBeforeOnLine(input, c) ==
    \E j \in 0..(c.pos - 1) :
        /\ input[j + 1] \notin {SP, NL}
        /\ \A l \in j..(c.pos - 1) : input[l + 1] # NL
RewrittenComment(input, out, c) ==
    /\ InDocumentEnvironment(input, c)
    /\ TextBeforeOnLine(input, c)
    /\ ArgOutput(input, out, c) = <<BS, "%">> \o Tail(ArgText(input, c))
C16_NeverRaisesFallbackOnOriginal ==
    \A k \in 1..(Len(text) - 1) :
        /\ text[k + 1] # Propagated
        /\ walkerRaised[k] => text[k + 1] = fallback_sanitize(text[k])
C16_Witness ==
    /\ Len(text) >= 2
    /\ walkerRaised[1]
    /\ text[2] # text[1]
    /\ text[2] # sanitize_content_ast(text[1])

(* C17: the fallback sanitizer leaves every well-formed tabular block of    *)
(* its input untouched, a block that contains a nested tabular block        *)
(* included, and its output for the text outside those blocks is the        *)
(* per-line character escaping of that text.                                *)
EscapedOutside(t) == IF t = <<>> THEN <<>> ELSE escape_specials_in_text(t)
(* The top-level nodes in order: the blocks as they are, the text between   *)
(* them escaped.                                                            *)
RECURSIVE BlocksKept(_, _, _)
BlocksKept(nodes, input, from) ==
    IF nodes = <<>> THEN EscapedOutside(Slice(input, from, Len(input)))
    ELSE IF Head(nodes).kind = "environment"
         THEN EscapedOutside(Slice(input, from, Head(nodes).pos))
                  \o ArgText(input, Head(nodes))
                  \o BlocksKept(Tail(nodes), input, Head(nodes).pos + Head(nodes).len)
         ELSE BlocksKept(Tail(nodes), input, from)
C17_FallbackKeepsTabularBlocks ==
    \A k \in 1..(Len(text) - 1) :
        (walkerRaised[k] /\ WellFormedContent(text[k]))
        => text[k + 1] = BlocksKept(get_latex_nodes(text[k]), text[k], 0)

(* The job name the engine was given, read off a file it wrote, and the     *)
(* stem of the source file it was derived from.                             *)
JobNames(p) == {Stem(f) : f \in engineWrote[p]}
SourceStem(p) == Stem(resolve(desc[p]))

(* C18: the safe job name is the base name with every character outside    *)
(* [A-Za-z0-9._-] replaced by _, one for one, every other character kept:   *)
(* it has the length of the base name and only characters of that set.      *)
C18_JobNameOneForOne ==
    \A p \in Procs : \A job \in JobNames(p) :
        /\ Len(job) = Len(SourceStem(p))
        /\ \A i \in 1..Len(job) :
              job[i] = IF SourceStem(p)[i] \in SafeJobnameChars
                       THEN SourceStem(p)[i] ELSE "_"

(* C18, amended: the safe job name is the base name with every maximal run  *)
(* of characters outside [A-Za-z0-9._-] replaced by a single _, every other *)
(* character kept: it is no longer than the base name and has only          *)
(* characters of that set.                                                  *)
RunsCollapsed(name) ==
    LET Kept(i) == name[i] \in SafeJobnameChars
                     \/ i = 1 \/ name[i - 1] \in SafeJobnameChars
        kept == SelectSeq([i \in 1..Len(name) |-> i], Kept)
    IN  [k \in 1..Len(kept) |->
            IF name[kept[k]] \in SafeJobnameChars THEN name[kept[k]] ELSE "_"]
C18_JobNameRunsCollapsed ==
    \A p \in Procs : \A job \in JobNames(p) :
        /\ job = RunsCollapsed(SourceStem(p))
        /\ Len(job) <= Len(SourceStem(p))
        /\ \A i \in 1..Len(job) : job[i] \in SafeJobnameChars
C18_Witness ==
    \E p \in Procs : \E job \in JobNames(p) :
        /\ \E i \in 1..(Len(SourceStem(p)) - 1) :
              /\ SourceStem(p)[i] \notin SafeJobnameChars
              /\ SourceStem(p)[i + 1] \notin SafeJobnameChars
        /\ Len(job) < Len(SourceStem(p))

(* C19: on the structural path every math span (inline or display) and     *)
(* every math environment (a name of the fixed set, or one ending in matrix *)
(* or matrix-star) comes out of sanitize_content exactly as it went in,     *)
(* whatever text, specials, comments, macros or groups it holds.            *)
MathRegionNodes(input) ==
    {n \in NodesOf(input) :
        \/ n.kind = "math"
        \/ n.kind = "environment"
             /\ n.name \in {<<"equation">>, <<"b", "matrix">>}}
C19_MathUntouched ==
    \A k \in StructuralPasses :
        \A n \in MathRegionNodes(text[k]) : Unchanged(text[k], text[k + 1], n)

(* The symbol at i (1-based) is on a line whose left-trimmed content starts *)
(* with %.                                                                  *)
OnCommentLine(t, i) ==
    \E j \in 1..Len(t) :
        /\ t[j] = "%"
        /\ \A l \in (IF i < j THEN i ELSE j)..(IF i < j THEN j ELSE i) : t[l] # NL
        /\ \A l \in 1..(j - 1) : (\A q \in l..(j - 1) : t[q] # NL) => t[l] = SP
(* The text with a backslash put before each of & $ # _ % that is not on a  *)
(* comment line and whose predecessor is not in `guards` (for %, not in     *)
(* percent_guards).                                                         *)
EscapedWhere(t, guards, percent_guards) ==
    Flatten([i \in 1..Len(t) |->
        IF /\ t[i] \in {"&", "$", "#", "_", "%"}
           /\ ~OnCommentLine(t, i)
           /\ (i = 1 \/ t[i - 1] \notin (IF t[i] = "%" THEN percent_guards ELSE guards))
        THEN <<BS, t[i]>> ELSE <<t[i]>>])
EscapingPasses == {k \in 1..(Len(text) - 1) : walkerRaised[k]}

(* C20: in every physical line whose left-trimmed content does not start    *)
(* with %, each & $ # _ % that is not immediately preceded by a backslash   *)
(* is replaced by its backslash-escaped form and those preceded by a        *)
(* backslash are left as they are; a line whose left-trimmed content starts *)
(* with % is returned unchanged; line separators are preserved.             *)
C20_EscapeUnlessBackslash ==
    \A k \in EscapingPasses : text[k + 1] = EscapedWhere(text[k], {BS}, {BS})

(* C20, amended: as above, except that a % is replaced only if it is         *)
(* immediately preceded neither by a backslash nor by another %.            *)
C20_EscapeUnlessBackslashOrPercent ==
    \A k \in EscapingPasses : text[k + 1] = EscapedWhere(text[k], {BS}, {BS, "%"})
C20_Witness ==
    /\ 1 \in EscapingPasses
    /\ text[2] # text[1]
    /\ \E i \in 2..Len(text[1]) :
          /\ text[1][i] = "%" /\ text[1][i - 1] = "%"
          /\ ~OnCommentLine(text[1], i)
    /\ \E i \in 1..Len(text[1]) : text[1][i] = NL

(* ------------------------------------------------------------------------ *)
(* Sanitization inside compile.                                             *)
(* ------------------------------------------------------------------------ *)
(* sanitize_file was called and raised: the source is as it was, although   *)
(* either path of sanitize_content would have changed it.                   *)
SanitizationRaised(p) ==
    LET tex_path == resolve(desc[p])
    IN  /\ sanitizeCalls[p] = 1
        /\ tex_path \in files
        /\ tex_path \notin modified[p]
        /\ \A raises \in BOOLEAN :
               sanitize_content(content[tex_path], raises) # content[tex_path]

(* C23: when in-place sanitization raises, compile goes on to the engine    *)
(* with the file as it is, and what it returns depends on the engine        *)
(* outcome and the PDF check alone.                                         *)
C23_SanitizeFailureDoesNotAbort ==
    \A p \in Procs :
        SanitizationRaised(p) =>
            /\ engineCalls[p] = <<>> => pc[p] = "engine1" /\ result[p] = Pending
            /\ Returned(p) =>
                   (result[p] # NoResult <=>
                        /\ LastCall(p).outcome = "exit0"
                        /\ OutputFile(resolve(desc[p]), ".pdf") \in files)
C23_Witness ==
    \E p \in Procs :
        SanitizationRaised(p) /\ Returned(p) /\ result[p] # NoResult

(* C24: a compile call that passes the precondition checks sanitizes the    *)
(* source exactly once, before the first engine invocation; no engine       *)
(* invocation is preceded by another sanitization or rewrite, and the       *)
(* source is written only when the sanitized content differs.               *)
SanitizeOnceStep(p) ==
    LET tex_path == resolve(desc[p])
        written == tex_path \in modified'[p] /\ tex_path \notin modified[p]
    IN  /\ sanitizeCalls'[p] # sanitizeCalls[p] =>
               /\ sanitizeCalls[p] = 0 /\ pc[p] = "sanitize"
               /\ engineCalls[p] = <<>> /\ engineCalls'[p] = <<>>
        /\ engineCalls'[p] # engineCalls[p] =>
               /\ sanitizeCalls[p] = 1 /\ sanitizeCalls'[p] = 1
               /\ content'[tex_path] = content[tex_path]
               /\ ~written
        /\ written =>
               /\ sanitizeCalls'[p] # sanitizeCalls[p]
               /\ content'[tex_path] # content[tex_path]
C24_SanitizedOnceBeforeEngine ==
    [][\A p \in Procs : SanitizeOnceStep(p)]_vars
C24_Witness ==
    \E p \in Procs :
        /\ Len(engineCalls[p]) = 2 /\ sanitizeCalls[p] = 1
        /\ resolve(desc[p]) \in modified[p]

(* C25: cleanup deletes only files named by the source file's directory,    *)
(* its base name without .tex and one of the seven auxiliary extensions,    *)
(* for every source path, also one with ".tex" in a directory name.         *)
Deleted(p) == {f \in modified[p] : f \notin files}
C25_CleanupDeletesOnlyOwnAuxFiles ==
    \A p \in Procs :
        \A f \in Deleted(p) :
            \E k \in 1..Len(AuxExtensions) :
                f = Parent(resolve(desc[p])) \o <<"/">> \o Stem(resolve(desc[p]))
                        \o <<AuxExtensions[k]>>

(* C26: after every compile call, whatever its outcome (a result, None or  *)
(* a failure), execute goes on to call cleanup on the descriptor.           *)
C26_CleanupAfterEveryCompile ==
    \A p \in Procs :
        result[p] # Pending => pc[p] \in {"cleanup", "done"}

(* ------------------------------------------------------------------------ *)
(* The edits of one walk.                                                   *)
(* ------------------------------------------------------------------------ *)
EditsOf(input) == Walk(input).replacements
(* Every edit's range of the content replaced at once, left to right: at an *)
(* offset where an edit starts its replacement text is written and the      *)
(* edited range skipped, any other character is copied.                     *)
RECURSIVE Simultaneous(_, _, _)
Simultaneous(input, edits, i) ==
    IF i >= Len(input) THEN <<>>
    ELSE IF \E k \in 1..Len(edits) : edits[k][1] = i
         THEN LET e == edits[CHOOSE k \in 1..Len(edits) : edits[k][1] = i]
              IN  e[3] \o Simultaneous(input, edits, e[2])
         ELSE <<input[i + 1]>> \o Simultaneous(input, edits, i + 1)

(* C21: applying the edits of one walk in descending order of start offset  *)
(* gives the string in which every edit's range of the original content is  *)
(* replaced simultaneously and every other character is kept in place.      *)
C21_DescendingIsSimultaneous ==
    \A k \in StructuralPasses :
        text[k + 1] = Simultaneous(text[k], EditsOf(text[k]), 0)
C21_Witness ==
    \E k \in StructuralPasses :
        /\ Len(EditsOf(text[k])) >= 2
        /\ \E e \in 1..Len(EditsOf(text[k])) : EditsOf(text[k])[e][3][2] = "%"
        /\ text[k + 1] # ApplyInOrder(text[k], EditsOf(text[k]))

(* ------------------------------------------------------------------------ *)
(* The calls of _process_node in one walk: the node, the context it is      *)
(* called with, and the node and context of the call that descended to it   *)
(* (pos -1 for the top-level list).                                         *)
(* ------------------------------------------------------------------------ *)
Visit(node, context, parent, parent_context) ==
    [pos |-> node.pos, len |-> node.len, kind |-> node.kind, context |-> context,
     parent |-> parent, parent_context |-> parent_context]
RECURSIVE Visits(_, _, _, _)
Visits(nodes, context, parent, parent_context) ==
    IF nodes = <<>> THEN <<>>
    ELSE LET node == Head(nodes)
             me == <<node.pos, node.len>>
             below ==
                 IF node.kind \in {"chars", "comment", "specials"} THEN <<>>
                 ELSE IF node.kind = "environment" THEN
                     LET context1 == IF node.name = <<"document">>
                                     THEN with_document(context) ELSE context
                         env_lower == Lower(node.name)
                     IN  IF env_lower \in VERBATIM_ENVIRONMENTS THEN <<>>
                         ELSE IF is_tabular_environment(env_lower) THEN <<>>
                         ELSE Visits(node.nodelist,
                                     IF is_math_environment(env_lower)
                                     THEN with_math(context1) ELSE context1,
                                     me, context)
                 ELSE IF node.kind = "math" THEN
                     Visits(node.nodelist, with_math(context), me, context)
                 ELSE IF node.kind = "macro" THEN
                     IF node.name \in VERBATIM_MACROS THEN <<>>
                     ELSE Visits(Flatten([idx \in 1..Len(node.argnlist) |->
                                     IF SkipsArgument(node.name, idx) THEN <<>>
                                     ELSE node.argnlist[idx].nodelist]),
                                 context, me, context)
                 ELSE Visits(node.nodelist, context, me, context)
         IN  <<Visit(node, context, parent, parent_context)>> \o below
                 \o Visits(Tail(nodes), context, parent, parent_context)
VisitsOf(input) ==
    LET all == Visits(get_latex_nodes(input),
                      TraversalContext(FALSE, FALSE, FALSE, FALSE), <<-1, 0>>,
                      TraversalContext(FALSE, FALSE, FALSE, FALSE))
    IN  {all[k] : k \in 1..Len(all)}
Flags == {"in_tabular", "in_math", "in_verbatim", "in_document"}

(* C22: the traversal context is monotonic down the tree and independent    *)
(* across siblings: a flag true in the context of a node's parent is true   *)
(* in the node's own context, and the nodes below one parent are all        *)
(* visited with the same context, whatever was set below an earlier one.    *)
C22_ContextMonotonicSiblingIndependent ==
    \A k \in StructuralPasses :
        /\ \A v \in VisitsOf(text[k]) :
               \A flag \in Flags : v.parent_context[flag] => v.context[flag]
        /\ \A v, w \in VisitsOf(text[k]) :
               v.parent = w.parent => v.context = w.context
C22_Witness ==
    \E k \in StructuralPasses :
        \E v, w \in VisitsOf(text[k]) :
            /\ v.kind = "math" /\ v.context.in_document
            /\ w.parent = v.parent /\ w.pos > v.pos /\ ~w.context.in_math
            /\ \E c \in VisitsOf(text[k]) :
                   c.parent = <<v.pos, v.len>> /\ c.context.in_math

(* C27: the edits of one walk have pairwise disjoint ranges, and each edit  *)
(* covers exactly the range of one leaf node: plain text, a special         *)
(* character or a comment.                                                  *)
LeafKinds == {"chars", "specials", "comment"}
C27_EditsDisjointLeafRanges ==
    \A k \in StructuralPasses :
        LET edits == EditsOf(text[k]) IN
        /\ \A i, j \in 1..Len(edits) :
               i # j => edits[i][2] <= edits[j][1] \/ edits[j][2] <= edits[i][1]
        /\ \A i \in 1..Len(edits) :
               \E n \in NodesOf(text[k]) :
                   /\ n.kind \in LeafKinds
                   /\ n.pos = edits[i][1] /\ n.pos + n.len = edits[i][2]
C27_Witness ==
    \E k \in StructuralPasses :
        /\ Len(EditsOf(text[k])) >= 2
        /\ \E n \in NodesOf(text[k]) :
               /\ n.kind = "macro" /\ n.name = <<"href">>
               /\ \E i \in 1..Len(EditsOf(text[k])) : Inside(EditsOf(text[k])[i][1], n)

(* ------------------------------------------------------------------------ *)
(* Batch runs, the progress tracker and background jobs.                    *)
(* ------------------------------------------------------------------------ *)
Failing(jobs, upto) == Cardinality({k \in 1..upto : jobs[k] # "ok"})
BatchAccounts(s) ==
    LET n == Len(batch.jobs)
    IN  /\ batch.idx = n
        /\ calls["increment"] = n
        /\ calls["mark_error"] = Failing(batch.jobs, n)
        /\ calls["complete"] = 1
        /\ progress[s].current = n /\ progress[s].total = n
        /\ progress[s].status = "completed"
        /\ batch.results + progress[s].errors = n

C29_CurrentWithinBounds ==
    \A s \in Sessions :
        progress[s] # Untracked =>
            0 <= progress[s].current /\ progress[s].current <= progress[s].total

(* C30: a background job with both callbacks has exactly one of them        *)
(* invoked, once: on_complete if and only if job_fn returned, on_error if   *)
(* and only if it raised.                                                   *)
C30_ExactlyOneCallback ==
    wrapped.pc \in {"done", "raised"} =>
        /\ wrapped.on_complete + wrapped.on_error = 1
        /\ wrapped.on_complete = 1 <=> wrapped.outcome = "returned"
        /\ wrapped.on_error = 1 <=> wrapped.outcome = "raised"

====
